---- MODULE Spec2Model ----
(***************************************************************************)
(* Model of homework.py: the training calculation classes (Training,       *)
(* Running, SportsWalking, Swimming), InfoMessage, read_package, main and  *)
(* the __main__ driver loop.                                               *)
(*                                                                         *)
(* Numbers.  The parameters of a record are Python ints; everything the    *)
(* program computes from them is a Python float, an IEEE 754 binary64      *)
(* number.  The model computes the same expressions, in the same order, in *)
(* binary64 arithmetic: every operation rounds its exact result to the     *)
(* nearest float, ties to even, and zeros are signed.  The decimal         *)
(* literals of the source (0.65, 1.38, 0.035, 0.029, 1.1) are the floats   *)
(* nearest to them.  A formatted field ({x:.3f}) is the string Python      *)
(* prints: the exact binary value rounded to three decimals.               *)
(***************************************************************************)
EXTENDS Integers, Sequences, FiniteSets, TLC

VARIABLES packages, idx, pc, training, info, stdout, result

vars == <<packages, idx, pc, training, info, stdout, result>>

(***************************************************************************)
(* Bounds of the model.                                                    *)
(***************************************************************************)
\* Largest number of records in the batch the driver loop iterates over.
MaxBatch == 2

(***************************************************************************)
(* Python evaluates the operands of an operation once, before the          *)
(* operation.  With(x, F) is F(x) with x evaluated once, first.            *)
(***************************************************************************)
With(x, F(_)) == CHOOSE r \in {F(v) : v \in {x}} : TRUE

(***************************************************************************)
(* Natural numbers of any size: sequences of limbs, least significant      *)
(* first, each limb in 0..Base-1.  High zero limbs are allowed.            *)
(***************************************************************************)
LimbBits == 14
Base == 16384

Pow2Table ==
    << 1, 2, 4, 8, 16, 32, 64, 128, 256, 512, 1024, 2048, 4096, 8192, 16384,
       32768, 65536, 131072, 262144, 524288, 1048576, 2097152, 4194304,
       8388608, 16777216, 33554432, 67108864, 134217728, 268435456,
       536870912, 1073741824 >>
\* 2^k for k in 0..30
Pow2(k) == Pow2Table[k + 1]

Abs(x) == IF x < 0 THEN -x ELSE x
Max(a, b) == IF a >= b THEN a ELSE b

Limb(n, i) == IF i >= 1 /\ i <= Len(n) THEN n[i] ELSE 0

\* n with exactly k limbs (the limbs above k are zero)
Fit(n, k) == With(n, LAMBDA v : [i \in 1..k |-> Limb(v, i)])

\* the natural number x (0 <= x < 2^31) as limbs
NatOfInt(x) ==
    With(x, LAMBDA v : << v % Base, (v \div Base) % Base, v \div (Base * Base) >>)

\* the value of n, for n < 2^31
IntOfNat(n) ==
    With(n, LAMBDA v : Limb(v, 1) + Base * (Limb(v, 2) + Base * Limb(v, 3)))

IsZeroN(n) == With(n, LAMBDA v : \A i \in 1..Len(v) : v[i] = 0)

\* index of the highest non-zero limb, 0 for zero
TopLimb(n) ==
    With(n, LAMBDA v :
        IF \A i \in 1..Len(v) : v[i] = 0 THEN 0
        ELSE CHOOSE i \in 1..Len(v) :
                 v[i] # 0 /\ \A j \in (i + 1)..Len(v) : v[j] = 0)

\* index of the lowest non-zero limb (n # 0)
BottomLimb(n) ==
    With(n, LAMBDA v :
        CHOOSE i \in 1..Len(v) : v[i] # 0 /\ \A j \in 1..(i - 1) : v[j] = 0)

\* number of bits of the limb x > 0
LimbWidth(x) ==
    With(x, LAMBDA v : CHOOSE k \in 1..LimbBits : Pow2(k - 1) <= v /\ v < Pow2(k))

\* number of trailing zero bits of the limb x > 0
LimbTrailingZeros(x) ==
    With(x, LAMBDA v :
        CHOOSE k \in 0..(LimbBits - 1) : v % Pow2(k + 1) # 0 /\ v % Pow2(k) = 0)

\* number of bits of n
BitLen(n) ==
    With(n, LAMBDA v :
        With(TopLimb(v), LAMBDA t :
            IF t = 0 THEN 0 ELSE LimbBits * (t - 1) + LimbWidth(v[t])))

\* number of trailing zero bits of n # 0
TrailingZeros(n) ==
    With(n, LAMBDA v :
        With(BottomLimb(v), LAMBDA t :
            LimbBits * (t - 1) + LimbTrailingZeros(v[t])))

\* bit k of n (bit 0 is the least significant)
Bit(n, k) == (Limb(n, (k \div LimbBits) + 1) \div Pow2(k % LimbBits)) % 2

\* some bit of n below bit k is set
AnyBitBelow(n, k) ==
    With(n, LAMBDA v :
        \E i \in 1..Len(v) :
            /\ (i - 1) * LimbBits < k
            /\ IF i * LimbBits <= k THEN v[i] # 0
               ELSE v[i] % Pow2(k - (i - 1) * LimbBits) # 0)

\* floor(n / 2^sh)
ShiftRight(n, sh) ==
    With(n, LAMBDA v :
        With(sh, LAMBDA k :
            [i \in 1..(IF Len(v) > k \div LimbBits
                       THEN Len(v) - (k \div LimbBits) ELSE 0) |->
                (Limb(v, i + (k \div LimbBits)) \div Pow2(k % LimbBits))
                + (Limb(v, i + (k \div LimbBits) + 1) % Pow2(k % LimbBits))
                  * Pow2(LimbBits - (k % LimbBits))]))

\* n * 2^sh
ShiftLeft(n, sh) ==
    With(n, LAMBDA v :
        With(sh, LAMBDA k :
            [i \in 1..(Len(v) + (k \div LimbBits) + 1) |->
                (Limb(v, i - (k \div LimbBits)) % Pow2(LimbBits - (k % LimbBits)))
                * Pow2(k % LimbBits)
                + (Limb(v, i - (k \div LimbBits) - 1)
                   \div Pow2(LimbBits - (k % LimbBits)))]))

RECURSIVE AddCarry(_, _, _, _, _)
\* the limbs i..n of x + y + c, and the carry out of limb n
AddCarry(x, y, i, n, c) ==
    IF i > n THEN <<c>>
    ELSE With(Limb(x, i) + Limb(y, i) + c, LAMBDA t :
             <<t % Base>> \o AddCarry(x, y, i + 1, n, t \div Base))

\* x + y
AddN(x, y) ==
    With(x, LAMBDA v :
        With(y, LAMBDA w : AddCarry(v, w, 1, Max(Len(v), Len(w)), 0)))

RECURSIVE SubBorrow(_, _, _, _, _)
SubBorrow(x, y, i, n, b) ==
    IF i > n THEN <<>>
    ELSE With(Limb(x, i) - Limb(y, i) - b, LAMBDA t :
             IF t < 0 THEN <<t + Base>> \o SubBorrow(x, y, i + 1, n, 1)
             ELSE <<t>> \o SubBorrow(x, y, i + 1, n, 0))

\* x - y for x >= y
SubN(x, y) ==
    With(x, LAMBDA v :
        With(y, LAMBDA w : SubBorrow(v, w, 1, Max(Len(v), Len(w)), 0)))

\* -1, 0, 1 as x < y, x = y, x > y
CmpN(x, y) ==
    With(x, LAMBDA v :
        With(y, LAMBDA w :
            With({i \in 1..Max(Len(v), Len(w)) : Limb(v, i) # Limb(w, i)}, LAMBDA D :
                IF D = {} THEN 0
                ELSE With(CHOOSE i \in D : \A j \in D : j <= i, LAMBDA t :
                         IF Limb(v, t) > Limb(w, t) THEN 1 ELSE -1))))

RECURSIVE Carry(_, _, _)
\* the limbs i.. of the number whose limb k, before carries, is cols[k]
Carry(cols, i, c) ==
    IF i > Len(cols) THEN <<c>>
    ELSE With(cols[i] + c, LAMBDA t :
             <<t % Base>> \o Carry(cols, i + 1, t \div Base))

RECURSIVE ColSum(_, _, _, _)
ColSum(x, y, k, i) ==
    IF i > Len(x) THEN 0
    ELSE x[i] * Limb(y, k + 1 - i) + ColSum(x, y, k, i + 1)

\* x * y (x of at most 7 limbs)
MulN(x, y) ==
    With(x, LAMBDA v :
        With(y, LAMBDA w :
            With([k \in 1..(Len(v) + Len(w)) |-> ColSum(v, w, k, 1)], LAMBDA cols :
                Carry(cols, 1, 0))))

\* n * k for 0 <= k < 2^17
MulSmall(n, k) ==
    With(n, LAMBDA v :
        With(k, LAMBDA w :
            With([i \in 1..Len(v) |-> v[i] * w], LAMBDA cols : Carry(cols, 1, 0))))

RECURSIVE DivSmallFrom(_, _, _, _)
\* the remainder, then the limbs 1..i of the quotient, of (r * Base^i + the
\* limbs 1..i of n) by d
DivSmallFrom(n, d, i, r) ==
    IF i = 0 THEN <<r>>
    ELSE With(r * Base + n[i], LAMBDA t :
             Append(DivSmallFrom(n, d, i - 1, t % d), t \div d))

\* quotient and remainder of n by d, 0 < d < 2^17
DivSmall(n, d) ==
    With(n, LAMBDA v :
        With(d, LAMBDA w :
            With(DivSmallFrom(v, w, Len(v), 0), LAMBDA s :
                [q |-> Tail(s), r |-> Head(s)])))

\* the limb c with c * d <= r < (c + 1) * d, for r < d * Base and a divisor d
\* whose top limb is at least Base / 2: the estimate from the two top limbs
\* of r is at most 2 too large
QuotientLimb(r, d) ==
    With((r[Len(d) + 1] * Base + r[Len(d)]) \div d[Len(d)], LAMBDA est :
        With(IF est > Base - 1 THEN Base - 1 ELSE est, LAMBDA qhat :
            CHOOSE c \in {qhat, qhat - 1, qhat - 2} :
                /\ c >= 0
                /\ CmpN(MulSmall(d, c), r) <= 0
                /\ CmpN(MulSmall(d, c + 1), r) > 0))

RECURSIVE DivLimbsFrom(_, _, _, _)
\* long division, one limb of n at a time from limb i downwards: the
\* remainder, then the limbs 1..i of the quotient
DivLimbsFrom(n, d, i, r) ==
    IF i = 0 THEN <<r>>
    ELSE With(Fit(<<n[i]>> \o r, Len(d) + 1), LAMBDA r2 :
             IF CmpN(r2, d) < 0
             THEN Append(DivLimbsFrom(n, d, i - 1, Fit(r2, Len(d))), 0)
             ELSE With(QuotientLimb(r2, d), LAMBDA q :
                      With(Fit(SubN(r2, MulSmall(d, q)), Len(d)), LAMBDA r3 :
                          Append(DivLimbsFrom(n, d, i - 1, r3), q))))

\* quotient and remainder of n by d > 0 of more than 17 bits: both are
\* shifted left until the top limb of d is at least Base / 2
DivLarge(n, d) ==
    With(TopLimb(d), LAMBDA len :
        With(LimbBits - LimbWidth(d[len]), LAMBDA sh :
            With(ShiftLeft(n, sh), LAMBDA nn :
                With(Fit(ShiftLeft(d, sh), len), LAMBDA dn :
                    With(DivLimbsFrom(nn, dn, Len(nn), Fit(<<>>, len)), LAMBDA s :
                        [q |-> Tail(s), r |-> ShiftRight(Head(s), sh)])))))

\* quotient and remainder of n by d, d > 0 of any size
DivN(n, d) ==
    With(n, LAMBDA v :
        With(d, LAMBDA w :
            IF BitLen(w) <= 17
            THEN With(DivSmall(v, IntOfNat(w)), LAMBDA s :
                     [q |-> s.q, r |-> NatOfInt(s.r)])
            ELSE DivLarge(v, w)))

\* n + 1
IncN(n) == AddN(n, <<1>>)

(***************************************************************************)
(* Python floats: IEEE 754 binary64.  A float is [s, m, e]: sign s (0 or   *)
(* 1), mantissa m (a natural number of 4 limbs) and exponent e; its value  *)
(* is (-1)^s * m * 2^e.  m = 0 and e = 0 for a zero; otherwise             *)
(* 2^52 <= m < 2^53.  Every operation rounds its exact result to nearest,  *)
(* ties to even.  Infinities, NaN and subnormal numbers are out of the     *)
(* range of the inputs of the model.                                       *)
(***************************************************************************)
MantBits == 53
MantLimbs == 4

FloatZero(s) == [s |-> s, m |-> Fit(<<>>, MantLimbs), e |-> 0]
IsZeroF(x) == IsZeroN(x.m)

\* n rounded to a multiple of 2^sh (sh > 0), ties to even, in units of 2^sh;
\* sticky: the number rounded is n + t with 0 < t < 1
RoundShift(n, sh, sticky) ==
    With(ShiftRight(n, sh), LAMBDA q :
        IF /\ Bit(n, sh - 1) = 1
           /\ (sticky \/ AnyBitBelow(n, sh - 1) \/ Bit(q, 0) = 1)
        THEN IncN(q) ELSE q)

\* (-1)^s * (n + t) * 2^e rounded to a float, where t = 0 if ~sticky and
\* 0 < t < 1 if sticky (sticky only with n of more than 54 bits)
RoundToFloat(s, n, e, sticky) ==
    With(n, LAMBDA v :
        With(BitLen(v), LAMBDA len :
            IF len = 0 THEN FloatZero(s)
            ELSE IF len <= MantBits
            THEN [s |-> s, m |-> Fit(ShiftLeft(v, MantBits - len), MantLimbs),
                  e |-> e - (MantBits - len)]
            ELSE With(RoundShift(v, len - MantBits, sticky), LAMBDA q :
                     IF BitLen(q) > MantBits
                     THEN [s |-> s, m |-> Fit(ShiftRight(q, 1), MantLimbs),
                           e |-> e + (len - MantBits) + 1]
                     ELSE [s |-> s, m |-> Fit(q, MantLimbs),
                           e |-> e + (len - MantBits)])))

\* float(x) for an int x, |x| < 2^31
FloatOfInt(x) ==
    With(x, LAMBDA v :
        RoundToFloat(IF v < 0 THEN 1 ELSE 0, NatOfInt(Abs(v)), 0, FALSE))

Xor(a, b) == (a + b) % 2

\* -x
FNeg(x) == With(x, LAMBDA v : [s |-> 1 - v.s, m |-> v.m, e |-> v.e])

\* x * y
FMul(x, y) ==
    With(x, LAMBDA v :
        With(y, LAMBDA w :
            RoundToFloat(Xor(v.s, w.s), MulN(v.m, w.m), v.e + w.e, FALSE)))

\* x / y for y # 0.  The divisor is taken without its trailing zero bits and
\* the dividend with 4 more limbs, so that the quotient has more than 55 bits.
FDiv(x, y) ==
    With(x, LAMBDA v :
        With(y, LAMBDA w :
            IF IsZeroF(v) THEN FloatZero(Xor(v.s, w.s))
            ELSE With(TrailingZeros(w.m), LAMBDA tz :
                     With(DivN(ShiftLeft(v.m, 4 * LimbBits), ShiftRight(w.m, tz)),
                          LAMBDA qr :
                              RoundToFloat(Xor(v.s, w.s), qr.q,
                                           v.e - 4 * LimbBits - w.e - tz,
                                           ~IsZeroN(qr.r))))))

\* |x| ? |y| : -1, 0, 1
CmpMag(x, y) ==
    IF IsZeroF(x) \/ IsZeroF(y)
    THEN (IF IsZeroF(x) /\ IsZeroF(y) THEN 0 ELSE IF IsZeroF(x) THEN -1 ELSE 1)
    ELSE IF x.e # y.e THEN (IF x.e > y.e THEN 1 ELSE -1)
    ELSE CmpN(x.m, y.m)

\* big + small for |big| >= |small| > 0: the exact sum or difference of the
\* aligned mantissas, rounded; an exact cancellation gives +0.0
AddAligned(big, small) ==
    IF big.e - small.e > MantBits + 2 THEN big
    ELSE With(ShiftLeft(big.m, big.e - small.e), LAMBDA a :
             IF big.s = small.s
             THEN RoundToFloat(big.s, AddN(a, small.m), small.e, FALSE)
             ELSE IF CmpN(a, small.m) = 0 THEN FloatZero(0)
             ELSE RoundToFloat(big.s, SubN(a, small.m), small.e, FALSE))

\* x + y
FAdd(x, y) ==
    With(x, LAMBDA v :
        With(y, LAMBDA w :
            IF IsZeroF(v) /\ IsZeroF(w)
            THEN FloatZero(IF v.s = 1 /\ w.s = 1 THEN 1 ELSE 0)
            ELSE IF IsZeroF(v) THEN w
            ELSE IF IsZeroF(w) THEN v
            ELSE IF CmpMag(v, w) >= 0 THEN AddAligned(v, w)
            ELSE AddAligned(w, v)))

\* x - y
FSub(x, y) == FAdd(x, FNeg(y))

\* -1, 0, 1 as x < 0, x = 0, x > 0
SignF(x) == IF IsZeroF(x) THEN 0 ELSE IF x.s = 1 THEN -1 ELSE 1

\* -1, 0, 1 as x < y, x = y, x > y
CmpF(x, y) ==
    IF SignF(x) # SignF(y) THEN (IF SignF(x) > SignF(y) THEN 1 ELSE -1)
    ELSE SignF(x) * CmpMag(x, y)

\* 1.0
One == FloatOfInt(1)
\* 0.5
Half == FDiv(FloatOfInt(1), FloatOfInt(2))

\* fmod(x, y) for y # 0: the remainder of |x| by |y| with the sign of x.  It
\* is a float, so nothing is rounded.
FMod(x, y) ==
    With(x, LAMBDA v :
        With(y, LAMBDA w :
            IF CmpMag(v, w) < 0 THEN v
            ELSE With(DivN(ShiftLeft(v.m, v.e - w.e), w.m), LAMBDA qr :
                     RoundToFloat(v.s, qr.r, w.e, FALSE))))

\* floor(x)
FFloor(x) ==
    With(x, LAMBDA v :
        IF v.e >= 0 THEN v
        ELSE With(ShiftRight(v.m, -v.e), LAMBDA q :
                 IF v.s = 0 THEN RoundToFloat(0, q, 0, FALSE)
                 ELSE IF AnyBitBelow(v.m, -v.e) THEN RoundToFloat(1, IncN(q), 0, FALSE)
                 ELSE RoundToFloat(1, q, 0, FALSE)))

\* x // y for y # 0, as float_floor_div computes it (_float_div_mod):
\*   mod = fmod(x, y); div = (x - mod) / y
\*   if mod and (y < 0) != (mod < 0): div -= 1.0
\*   if div: floordiv = floor(div); if div - floordiv > 0.5: floordiv += 1.0
\*   else: floordiv = copysign(0.0, x / y)
\* Each of these operations rounds, so the result is not always the floor of
\* the exact quotient.
FFloorDiv(x, y) ==
    With(x, LAMBDA vx :
    With(y, LAMBDA wx :
    With(FMod(vx, wx), LAMBDA mod :
    With(FDiv(FSub(vx, mod), wx), LAMBDA quotient :
    With(IF ~IsZeroF(mod) /\ wx.s # mod.s THEN FSub(quotient, One) ELSE quotient,
         LAMBDA div :
        IF IsZeroF(div) THEN FloatZero(Xor(vx.s, wx.s))
        ELSE With(FFloor(div), LAMBDA floordiv :
                 IF CmpF(FSub(div, floordiv), Half) > 0 THEN FAdd(floordiv, One)
                 ELSE floordiv))))))

\* x ** 2: the values pow(x, 2.0) of the C library can return.  pow is not
\* required to round correctly; its error is below one unit in the last
\* place, so it returns the square itself when that is a float, and otherwise
\* one of the two floats next to the square.
FSquare(x) ==
    With(x, LAMBDA v :
        IF IsZeroF(v) THEN {FloatZero(0)}
        ELSE With(MulN(v.m, v.m), LAMBDA n :
             With(BitLen(n) - MantBits, LAMBDA sh :
             With(ShiftRight(n, sh), LAMBDA q :
                 IF ~AnyBitBelow(n, sh) THEN {RoundToFloat(0, q, 2 * v.e + sh, FALSE)}
                 ELSE {RoundToFloat(0, q, 2 * v.e + sh, FALSE),
                       RoundToFloat(0, IncN(q), 2 * v.e + sh, FALSE)}))))

DecimalDigit == <<"0", "1", "2", "3", "4", "5", "6", "7", "8", "9">>

RECURSIVE Decimal(_)
\* the decimal digits of n > 0, the empty string for 0
Decimal(n) ==
    IF IsZeroN(n) THEN ""
    ELSE With(DivSmall(n, 10), LAMBDA s : Decimal(s.q) \o DecimalDigit[s.r + 1])

\* the number of thousandths nearest to |x|, ties to even
Thousandths(x) ==
    With(MulSmall(x.m, 1000), LAMBDA n :
        IF x.e >= 0 THEN ShiftLeft(n, x.e) ELSE RoundShift(n, -x.e, FALSE))

\* '{:.3f}'.format(x): the sign, the whole part, a point and three decimals
\* of the exact binary value of x rounded to thousandths, ties to even; a
\* negative zero and a negative value that rounds to zero print "-0.000".
Format3f(x) ==
    With(x, LAMBDA v :
        With(DivSmall(Thousandths(v), 1000), LAMBDA parts :
            (IF v.s = 1 THEN "-" ELSE "")
            \o (IF IsZeroN(parts.q) THEN "0" ELSE Decimal(parts.q))
            \o "." \o DecimalDigit[(parts.r \div 100) + 1]
            \o DecimalDigit[((parts.r \div 10) % 10) + 1]
            \o DecimalDigit[(parts.r % 10) + 1]))

(***************************************************************************)
(* Results of calls: a call either returns a value or raises.              *)
(***************************************************************************)
None == [cls |-> "None"]
NoExc == [type |-> "None"]
\* 0.0
Zero == FloatZero(0)

Return(v) == [exc |-> NoExc, val |-> v]
Raise(e) == [exc |-> e, val |-> None]
Raised(r) == r.exc.type # "None"

ZeroDivisionError == [type |-> "ZeroDivisionError"]
TypeError == [type |-> "TypeError"]
KeyError(key) == [type |-> "KeyError", key |-> key]

\* a / b as Python evaluates it: division by zero raises.
Divide(a, b) ==
    With(b, LAMBDA d : IF IsZeroF(d) THEN Raise(ZeroDivisionError) ELSE Return(FDiv(a, d)))
\* a // b as Python evaluates it
FloorDivide(a, b) ==
    With(b, LAMBDA d :
        IF IsZeroF(d) THEN Raise(ZeroDivisionError) ELSE Return(FFloorDiv(a, d)))

(***************************************************************************)
(* Class constants.  A decimal literal is the float nearest to it, which   *)
(* is the correctly rounded quotient of two ints.                          *)
(***************************************************************************)
\* 0.65
Training_LEN_STEP == FDiv(FloatOfInt(65), FloatOfInt(100))
\* 1.38
Swimming_LEN_STEP == FDiv(FloatOfInt(138), FloatOfInt(100))
\* 1000.0
M_IN_KM == FloatOfInt(1000)
\* 60.0
MIN_IN_HOUR == FloatOfInt(60)

\* 18.0
Running_COEFF_MEAN_SPEED_1 == FloatOfInt(18)
\* 20.0
Running_COEFF_MEAN_SPEED_2 == FloatOfInt(20)

\* 0.035
COEFF_CALORIE_1 == FDiv(FloatOfInt(35), FloatOfInt(1000))
\* 0.029
COEFF_CALORIE_2 == FDiv(FloatOfInt(29), FloatOfInt(1000))

\* 1.1
Swimming_COEFF_MEAN_SPEED_1 == FDiv(FloatOfInt(11), FloatOfInt(10))
\* the int 2, a float when it meets one
Swimming_COEFF_MEAN_SPEED_2 == FloatOfInt(2)


\* Faulty variant of LEN_STEP: Swimming does not override the attribute.
LEN_STEP_NotOverridden(self) == Training_LEN_STEP

\* self.LEN_STEP: Swimming overrides the class attribute, the others inherit it.
LEN_STEP(self) ==
    IF self.cls = "Swimming" THEN Swimming_LEN_STEP ELSE Training_LEN_STEP

(***************************************************************************)
(* Constructors.  Calling a class with the wrong number of positional      *)
(* arguments raises TypeError before __init__ runs.  The fields hold the   *)
(* ints of the record.                                                     *)
(***************************************************************************)
Classes == {"Training", "Running", "SportsWalking", "Swimming"}

Training__init__(cls, data) ==
    [cls |-> cls, action |-> data[1], duration |-> data[2], weight |-> data[3]]

SportsWalking__init__(data) ==
    [cls |-> "SportsWalking", action |-> data[1], duration |-> data[2],
     weight |-> data[3], height |-> data[4]]


\* Faulty variant of Swimming.__init__: the two pool fields are exchanged.
Swimming__init__PoolsExchanged(data) ==
    [cls |-> "Swimming", action |-> data[1], duration |-> data[2],
     weight |-> data[3], length_pool |-> data[5], count_pool |-> data[4]]

Swimming__init__(data) ==
    [cls |-> "Swimming", action |-> data[1], duration |-> data[2],
     weight |-> data[3], length_pool |-> data[4], count_pool |-> data[5]]

\* number of positional parameters of cls.__init__ besides self
ParamCount(cls) ==
    CASE cls = "SportsWalking" -> 4
      [] cls = "Swimming" -> 5
      [] OTHER -> 3

\* cls(*data)
Construct(cls, data) ==
    IF Len(data) # ParamCount(cls) THEN Raise(TypeError)
    ELSE Return(CASE cls = "SportsWalking" -> SportsWalking__init__(data)
                  [] cls = "Swimming" -> Swimming__init__(data)
                  [] OTHER -> Training__init__(cls, data))

(***************************************************************************)
(* Methods.  get_distance and get_mean_speed give Return(value) or         *)
(* Raise(exception).  get_spent_calories and show_training_info give the   *)
(* set of the results the call can have: one result, except where the      *)
(* square of the speed has two candidates.  An int that meets a float in   *)
(* an operation is converted to a float first.                             *)
(***************************************************************************)
\* Training.get_distance (inherited by every subclass)
get_distance(self) ==
    Return(FDiv(FMul(FloatOfInt(self.action), LEN_STEP(self)), M_IN_KM))


\* Faulty variant of Training.get_mean_speed: a zero duration gives speed 0
\* instead of a division fault.
Training_get_mean_speed_ZeroGuarded(self) ==
    IF self.duration = 0 THEN Return(Zero)
    ELSE Return(FDiv(get_distance(self).val, FloatOfInt(self.duration)))

\* Training.get_mean_speed
Training_get_mean_speed(self) ==
    Divide(get_distance(self).val, FloatOfInt(self.duration))


\* Faulty variant of Swimming.get_mean_speed: the method is not overridden,
\* the speed comes from the action count.
Swimming_get_mean_speed_Inherited(self) ==
    Divide(get_distance(self).val, FloatOfInt(self.duration))

\* Swimming.get_mean_speed: the product of the two ints is an int
Swimming_get_mean_speed(self) ==
    LET full_length_pool == self.length_pool * self.count_pool
    IN  Divide(FDiv(FloatOfInt(full_length_pool), M_IN_KM),
               FloatOfInt(self.duration))

\* self.get_mean_speed(), resolved on the class of self
get_mean_speed(self) ==
    IF self.cls = "Swimming" THEN Swimming_get_mean_speed(self)
    ELSE Training_get_mean_speed(self)

NotImplementedError(classname) ==
    [type |-> "NotImplementedError", classname |-> classname]


\* Faulty variant of Training.get_spent_calories: it returns a value.
Training_get_spent_calories_Silent(self) == {Return(Zero)}

\* Training.get_spent_calories
Training_get_spent_calories(self) == {Raise(NotImplementedError(self.cls))}


\* Faulty variant of Running.get_spent_calories: the duration is left in
\* hours.
Running_get_spent_calories_Hours(self) ==
    With(Training_get_mean_speed(self), LAMBDA speed :
        IF Raised(speed) THEN {speed}
        ELSE With(FSub(FMul(speed.val, Running_COEFF_MEAN_SPEED_1),
                       Running_COEFF_MEAN_SPEED_2), LAMBDA coeff_mean_speed :
                 {Return(FMul(FDiv(FMul(coeff_mean_speed, FloatOfInt(self.weight)),
                                   M_IN_KM),
                              FloatOfInt(self.duration)))}))

\* Running.get_spent_calories:
\*   ((speed * 18.0 - 20.0) * weight / 1000.0) * duration_in_min
Running_get_spent_calories(self) ==
    With(FMul(FloatOfInt(self.duration), MIN_IN_HOUR), LAMBDA duration_in_min :
    With(get_mean_speed(self), LAMBDA speed :
        IF Raised(speed) THEN {speed}
        ELSE With(FSub(FMul(speed.val, Running_COEFF_MEAN_SPEED_1),
                       Running_COEFF_MEAN_SPEED_2), LAMBDA coeff_mean_speed :
                 {Return(FMul(FDiv(FMul(coeff_mean_speed, FloatOfInt(self.weight)),
                                   M_IN_KM),
                              duration_in_min))})))


\* Faulty variant of SportsWalking.get_spent_calories: / in place of //.
SportsWalking_get_spent_calories_TrueDivision(self) ==
    With(FMul(FloatOfInt(self.duration), MIN_IN_HOUR), LAMBDA duration_in_min :
    With(Training_get_mean_speed(self), LAMBDA speed :
        IF Raised(speed) THEN {speed}
        ELSE { With(Divide(square, FloatOfInt(self.height)), LAMBDA quotient :
                   IF Raised(quotient) THEN quotient
                   ELSE Return(FMul(FAdd(FMul(COEFF_CALORIE_1, FloatOfInt(self.weight)),
                                         FMul(FMul(quotient.val, COEFF_CALORIE_2),
                                              FloatOfInt(self.weight))),
                                    duration_in_min)))
               : square \in FSquare(speed.val) }))

\* SportsWalking.get_spent_calories.  Python binds ** tighter than // and *,
\* and // and * associate to the left:
\*   (C1 * weight + ((speed ** 2 // height) * C2) * weight) * duration_in_min
SportsWalking_get_spent_calories(self) ==
    With(FMul(FloatOfInt(self.duration), MIN_IN_HOUR), LAMBDA duration_in_min :
    With(get_mean_speed(self), LAMBDA speed :
        IF Raised(speed) THEN {speed}
        ELSE { With(FloorDivide(square, FloatOfInt(self.height)), LAMBDA floored :
                   IF Raised(floored) THEN floored
                   ELSE Return(FMul(FAdd(FMul(COEFF_CALORIE_1, FloatOfInt(self.weight)),
                                         FMul(FMul(floored.val, COEFF_CALORIE_2),
                                              FloatOfInt(self.weight))),
                                    duration_in_min)))
               : square \in FSquare(speed.val) }))

\* Swimming.get_spent_calories: ((speed + 1.1) * 2) * weight
Swimming_get_spent_calories(self) ==
    With(get_mean_speed(self), LAMBDA mean_speed :
        IF Raised(mean_speed) THEN {mean_speed}
        ELSE {Return(FMul(FMul(FAdd(mean_speed.val, Swimming_COEFF_MEAN_SPEED_1),
                               Swimming_COEFF_MEAN_SPEED_2),
                          FloatOfInt(self.weight)))})

\* self.get_spent_calories(), resolved on the class of self
get_spent_calories(self) ==
    CASE self.cls = "Running" -> Running_get_spent_calories(self)
      [] self.cls = "SportsWalking" -> SportsWalking_get_spent_calories(self)
      [] self.cls = "Swimming" -> Swimming_get_spent_calories(self)
      [] OTHER -> Training_get_spent_calories(self)

\* InfoMessage(training_type, duration, distance, speed, calories)
InfoMessage(training_type, duration, distance, speed, calories) ==
    [training_type |-> training_type, duration |-> duration,
     distance |-> distance, speed |-> speed, calories |-> calories]

NoInfo == [training_type |-> "None"]

\* Training.show_training_info: the three computations in the source's order;
\* the first one that raises ends the call; one result for each result of
\* get_spent_calories.  The duration of the message is
\* the field of the instance, an int.
show_training_info(self) ==
    With(get_distance(self), LAMBDA distance :
    With(get_mean_speed(self), LAMBDA mean_speed :
        IF Raised(mean_speed) THEN {mean_speed}
        ELSE { IF Raised(spent_calories) THEN spent_calories
               ELSE Return(InfoMessage(self.cls, self.duration, distance.val,
                                       mean_speed.val, spent_calories.val))
               : spent_calories \in get_spent_calories(self) }))

\* InfoMessage.get_message: every numeric field formatted with .3f (the int
\* duration is converted to a float by the format); the fixed words of the
\* message are left out.
get_message(msg) ==
    With(msg, LAMBDA self :
        [kind |-> "info", training_type |-> self.training_type,
         duration |-> Format3f(FloatOfInt(self.duration)),
         distance |-> Format3f(self.distance),
         speed |-> Format3f(self.speed), calories |-> Format3f(self.calories)])

(***************************************************************************)
(* read_package.                                                           *)
(***************************************************************************)
\* the dict workout_types
workout_types ==
    [t \in {"SWM", "RUN", "WLK"} |->
        CASE t = "SWM" -> "Swimming"
          [] t = "RUN" -> "Running"
          [] t = "WLK" -> "SportsWalking"]

TrainingNameErrorException(workout_type) ==
    [type |-> "TrainingNameErrorException",
     message |-> [text |-> "key_error_message", workout_type |-> workout_type]]

TrainingDataErrorExcrption(workout_type, data) ==
    [type |-> "TrainingDataErrorExcrption",
     message |-> [text |-> "data_error_message", workout_type |-> workout_type,
                  data |-> data]]

\* the body of the try block: workout_types[workout_type](*data).
\* The subscription is evaluated before the call.
read_package_try(workout_type, data) ==
    IF workout_type \notin DOMAIN workout_types THEN Raise(KeyError(workout_type))
    ELSE Construct(workout_types[workout_type], data)


\* Faulty variant of the except clauses: the two handlers raise each other's
\* exception.
read_package_except_Exchanged(e, workout_type, data) ==
    CASE e.type = "KeyError" -> TrainingDataErrorExcrption(workout_type, data)
      [] e.type = "ValueError" -> TrainingNameErrorException(workout_type)
      [] OTHER -> e

\* the except clauses: KeyError and ValueError are converted, anything else
\* propagates unchanged.
read_package_except(e, workout_type, data) ==
    CASE e.type = "KeyError" -> TrainingNameErrorException(workout_type)
      [] e.type = "ValueError" -> TrainingDataErrorExcrption(workout_type, data)
      [] OTHER -> e

read_package(workout_type, data) ==
    LET r == read_package_try(workout_type, data)
    IN  IF Raised(r) THEN Raise(read_package_except(r.exc, workout_type, data))
        ELSE r

(***************************************************************************)
(* Inputs.                                                                 *)
(***************************************************************************)
\* The three codes of workout_types and one code that is not a key.
Tags == {"SWM", "RUN", "WLK", "XYZ"}

\* Parameter sequences: the three packages of __main__, variations of them
\* (another action count, another duration, a zero duration, a zero height,
\* a height that the squared speed exceeds) and sequences of length 0, 2 and 6.
DataSet ==
    { <<>>,
      <<15000, 1>>,
      <<15000, 1, 75>>,
      <<15000, 0, 75>>,
      <<9000, 2, 70>>,
      <<9000, 1, 75, 180>>,
      <<20000, 1, 75, 100>>,
      <<9000, 0, 75, 180>>,
      <<9000, 1, 75, 0>>,
      <<20000, 2, 75, 40>>,
      <<720, 1, 80, 25, 40>>,
      <<1000, 1, 80, 25, 40>>,
      <<720, 0, 80, 25, 40>>,
      <<720, 2, 80, 50, 30>>,
      <<720, 1, 80, 25, 40, 7>> }

Records == [workout_type : Tags, data : DataSet]

\* the lists of n records
Batches(n) == [1..n -> Records]

(***************************************************************************)
(* State.                                                                  *)
(*   packages  the list the driver iterates over                           *)
(*   idx       position of the for loop in packages (1-based)              *)
(*   pc        control point                                               *)
(*   training  the variable training (None until first bound)              *)
(*   info      the InfoMessage main built last                             *)
(*   stdout    the lines printed so far                                    *)
(*   result    outcome of the last call: its function, the exception it    *)
(*             raised (NoExc if it returned) and its return value          *)
(***************************************************************************)
Call(fn, r) == [fn |-> fn, exc |-> r.exc, val |-> r.val]
NoResult == Call("None", Return(None))

\* the list packages of __main__
MainPackages ==
    << [workout_type |-> "SWM", data |-> <<720, 1, 80, 25, 40>>],
       [workout_type |-> "RUN", data |-> <<15000, 1, 75>>],
       [workout_type |-> "WLK", data |-> <<9000, 1, 75, 180>>] >>

\* The driver runs over the list of __main__ or over any list of at most
\* MaxBatch records.
Init ==
    /\ \/ packages = MainPackages
       \/ \E n \in 0..MaxBatch : packages \in Batches(n)
    /\ idx = 1
    /\ pc = "for"
    /\ training = None
    /\ info = NoInfo
    /\ stdout = <<>>
    /\ result = NoResult

\* the exceptions the driver's except clause names
Caught == {"TrainingDataErrorExcrption", "TrainingNameErrorException"}

\* for ...: try: training = read_package(workout_type, data) -- it returns
ReadPackageReturns ==
    /\ pc = "for"
    /\ idx <= Len(packages)
    /\ LET r == read_package(packages[idx].workout_type, packages[idx].data)
       IN  /\ ~Raised(r)
           /\ training' = r.val
           /\ result' = Call("read_package", r)
    /\ pc' = "else"
    /\ UNCHANGED <<packages, idx, info, stdout>>

\* ... it raises one of the two exceptions of the except clause
ReadPackageRaisesCaught ==
    /\ pc = "for"
    /\ idx <= Len(packages)
    /\ LET r == read_package(packages[idx].workout_type, packages[idx].data)
       IN  /\ Raised(r)
           /\ r.exc.type \in Caught
           /\ result' = Call("read_package", r)
    /\ pc' = "except"
    /\ UNCHANGED <<packages, idx, training, info, stdout>>

\* ... it raises anything else: the exception leaves the loop and the program
ReadPackageRaisesUncaught ==
    /\ pc = "for"
    /\ idx <= Len(packages)
    /\ LET r == read_package(packages[idx].workout_type, packages[idx].data)
       IN  /\ Raised(r)
           /\ r.exc.type \notin Caught
           /\ result' = Call("read_package", r)
    /\ pc' = "crashed"
    /\ UNCHANGED <<packages, idx, training, info, stdout>>

\* except (...) as ex: print(error_message.format(ex))
PrintErrorMessage ==
    /\ pc = "except"
    /\ stdout' = Append(stdout, [kind |-> "error", ex |-> result.exc.message])
    /\ idx' = idx + 1
    /\ pc' = "for"
    /\ UNCHANGED <<packages, training, info, result>>

\* else: main(training) -- show_training_info returns, the message is printed
MainPrints ==
    /\ pc = "else"
    /\ \E r \in show_training_info(training) :
           /\ ~Raised(r)
           /\ info' = r.val
           /\ stdout' = Append(stdout, get_message(r.val))
    /\ result' = Call("main", Return(None))
    /\ idx' = idx + 1
    /\ pc' = "for"
    /\ UNCHANGED <<packages, training>>

\* else: main(training) -- show_training_info raises; nothing catches it
MainRaises ==
    /\ pc = "else"
    /\ \E r \in show_training_info(training) :
           /\ Raised(r)
           /\ result' = Call("main", r)
    /\ pc' = "crashed"
    /\ UNCHANGED <<packages, idx, training, info, stdout>>

\* the list is exhausted
ForEnd ==
    /\ pc = "for"
    /\ idx > Len(packages)
    /\ pc' = "done"
    /\ UNCHANGED <<packages, idx, training, info, stdout, result>>

Next ==
    \/ ReadPackageReturns
    \/ ReadPackageRaisesCaught
    \/ ReadPackageRaisesUncaught
    \/ PrintErrorMessage
    \/ MainPrints
    \/ MainRaises
    \/ ForEnd

Spec == Init /\ [][Next]_vars

(***************************************************************************)
(* Direct use of the module: a caller obtains an instance from read_package*)
(* or from a class, and calls its methods.                                 *)
(*   pc = "unit"         nothing called yet                                *)
(*   pc = "dispatched"   training was returned by read_package             *)
(*   pc = "constructed"  training was returned by a class                  *)
(*   pc = "raised"       the call that should give the instance raised     *)
(***************************************************************************)
InitUnit ==
    /\ packages = <<>>
    /\ idx = 1
    /\ pc = "unit"
    /\ training = None
    /\ info = NoInfo
    /\ stdout = <<>>
    /\ result = NoResult

UnitReadPackage ==
    /\ pc = "unit"
    /\ \E rec \in Records :
          LET r == read_package(rec.workout_type, rec.data)
          IN  /\ packages' = <<rec>>
              /\ training' = r.val
              /\ result' = Call("read_package", r)
              /\ pc' = IF Raised(r) THEN "raised" ELSE "dispatched"
    /\ UNCHANGED <<idx, info, stdout>>

UnitConstruct ==
    /\ pc = "unit"
    /\ \E cls \in Classes, data \in DataSet :
          LET r == Construct(cls, data)
          IN  /\ training' = r.val
              /\ result' = Call(cls, r)
              /\ pc' = IF Raised(r) THEN "raised" ELSE "constructed"
    /\ UNCHANGED <<packages, idx, info, stdout>>

UnitGetSpentCalories ==
    /\ pc \in {"dispatched", "constructed"}
    /\ \E r \in get_spent_calories(training) :
           result' = Call("get_spent_calories", r)
    /\ UNCHANGED <<packages, idx, pc, training, info, stdout>>

UnitShowTrainingInfo ==
    /\ pc \in {"dispatched", "constructed"}
    /\ \E r \in show_training_info(training) :
           /\ result' = Call("show_training_info", r)
           /\ info' = IF Raised(r) THEN info ELSE r.val
    /\ UNCHANGED <<packages, idx, pc, training, stdout>>

NextUnit ==
    \/ UnitReadPackage
    \/ UnitConstruct
    \/ UnitGetSpentCalories
    \/ UnitShowTrainingInfo

SpecUnit == InitUnit /\ [][NextUnit]_vars

(***************************************************************************)
(* Properties.                                                             *)
(***************************************************************************)
\* The parameter counts the specification states for the three codes.
ExpectedLength(tag) ==
    CASE tag = "RUN" -> 3
      [] tag = "WLK" -> 4
      [] tag = "SWM" -> 5

Recognized(tag) == tag \in {"SWM", "RUN", "WLK"}

WellFormed(rec) ==
    /\ Recognized(rec.workout_type)
    /\ Len(rec.data) = ExpectedLength(rec.workout_type)

\* The driver has just called read_package on packages[idx].
JustDispatched ==
    /\ result.fn = "read_package"
    /\ pc \in {"else", "except", "crashed"}

\* The driver has just printed the summary of packages[idx - 1].
JustPrinted ==
    /\ result.fn = "main"
    /\ pc = "for"
    /\ idx > 1

LastLine == stdout[Len(stdout)]

\* C1: read_package with a recognized tag and a parameter sequence of the
\* wrong length raises TrainingDataErrorExcrption carrying the tag and the
\* sequence; with tag RUN and exactly 3 parameters it returns.
C1_WrongCountIsDataError ==
    JustDispatched =>
        LET rec == packages[idx]
        IN  /\ (Recognized(rec.workout_type) /\ ~WellFormed(rec)) =>
                  /\ result.exc.type = "TrainingDataErrorExcrption"
                  /\ result.exc.message.workout_type = rec.workout_type
                  /\ result.exc.message.data = rec.data
            /\ (rec.workout_type = "RUN" /\ Len(rec.data) = 3) =>
                  result.exc = NoExc

\* C2: read_package with a tag that is not SWM, RUN or WLK raises
\* TrainingNameErrorException carrying the tag, whatever the parameter
\* sequence, and that exception is not the one for a wrong parameter count.
C2_UnknownTagIsNameError ==
    JustDispatched =>
        LET rec == packages[idx]
        IN  ~Recognized(rec.workout_type) =>
               /\ result.exc.type = "TrainingNameErrorException"
               /\ result.exc.message.workout_type = rec.workout_type
               /\ result.exc.type # "TrainingDataErrorExcrption"
               /\ result.val = None
               /\ pc = "except"

C2_Witness ==
    /\ JustDispatched
    /\ pc = "except"
    /\ packages[idx].workout_type = "XYZ"
    /\ Len(packages[idx].data) = 3
    /\ result.exc.type = "TrainingNameErrorException"

\* C3: a dispatch failure of a record (unknown tag or wrong parameter count)
\* never leaves the driver loop: the loop is never ended by the exception of
\* a read_package call, and when the loop is not ended by an exception every
\* record has produced exactly one line.
C3_DispatchFailureNeverEscapes ==
    /\ (pc = "crashed" /\ ~WellFormed(packages[idx])) => result.fn # "read_package"
    /\ pc = "done" => Len(stdout) = Len(packages)

\* The instance the specification expects for a well-formed record.
ExpectedInstance(rec) ==
    LET d == rec.data
    IN  CASE rec.workout_type = "RUN" ->
                [cls |-> "Running", action |-> d[1], duration |-> d[2],
                 weight |-> d[3]]
          [] rec.workout_type = "WLK" ->
                [cls |-> "SportsWalking", action |-> d[1], duration |-> d[2],
                 weight |-> d[3], height |-> d[4]]
          [] rec.workout_type = "SWM" ->
                [cls |-> "Swimming", action |-> d[1], duration |-> d[2],
                 weight |-> d[3], length_pool |-> d[4], count_pool |-> d[5]]

\* C4: read_package returns an instance exactly for a recognized tag with the
\* expected number of parameters, and then it is the class mapped to the tag
\* with every field set positionally; in every other case it returns nothing.
C4_InstanceOrNothing ==
    JustDispatched =>
        LET rec == packages[idx]
        IN  IF WellFormed(rec)
            THEN /\ result.exc = NoExc
                 /\ result.val = ExpectedInstance(rec)
                 /\ training = ExpectedInstance(rec)
                 /\ pc = "else"
            ELSE /\ result.exc # NoExc
                 /\ result.val = None
                 /\ pc # "else"

C4_Witness ==
    /\ JustDispatched
    /\ pc = "else"
    /\ packages[idx] = [workout_type |-> "SWM", data |-> <<720, 1, 80, 25, 40>>]
    /\ training.length_pool = 25
    /\ training.count_pool = 40

\* The record whose summary the driver printed last, and its parameters.
Printed == packages[idx - 1]

SwmSample == [workout_type |-> "SWM", data |-> <<720, 1, 80, 25, 40>>]
RunSample == [workout_type |-> "RUN", data |-> <<15000, 1, 75>>]
WlkSample == [workout_type |-> "WLK", data |-> <<9000, 1, 75, 180>>]

(***************************************************************************)
(* The formulas of the specification are formulas over the reals.  Their   *)
(* values are rationals [n, d] in lowest terms with d > 0, and a float     *)
(* agrees with one when it is within the relative tolerance 2^-40 of it.   *)
(***************************************************************************)
RECURSIVE GCD(_, _)
GCD(a, b) == IF b = 0 THEN a ELSE GCD(b, a % b)

Rat(n, d) ==
    LET g == GCD(Abs(n), Abs(d))
        s == IF d < 0 THEN -1 ELSE 1
    IN  [n |-> (s * n) \div g, d |-> (s * d) \div g]

\* |x - r| * 2^40 <= |r|, for a float x and a rational r
Near(x, r) ==
    IF r.n = 0 THEN IsZeroF(x)
    ELSE /\ x.s = (IF r.n < 0 THEN 1 ELSE 0)
         /\ LET a == MulN(x.m, NatOfInt(r.d))
                b == NatOfInt(Abs(r.n))
                xd == IF x.e >= 0 THEN ShiftLeft(a, x.e) ELSE a
                rn == IF x.e >= 0 THEN b ELSE ShiftLeft(b, -x.e)
                diff == IF CmpN(xd, rn) >= 0 THEN SubN(xd, rn) ELSE SubN(rn, xd)
            IN  CmpN(ShiftLeft(diff, 40), rn) <= 0

\* C5 as stated: the distance in the summary of a Swimming record is
\* length_pool * count_pool / 1000; for the SWM package of __main__ it is
\* 1.000 km.
C5_SwimmingDistanceIsPoolLength ==
    (JustPrinted /\ Printed.workout_type = "SWM") =>
        LET d == Printed.data
        IN  /\ Near(info.distance, Rat(d[4] * d[5], 1000))
            /\ Printed = SwmSample => LastLine.distance = "1.000"

\* C5 amended: the distance in the summary of a Swimming record is
\* action * 1.38 / 1000 (the pool length and count enter the mean speed
\* only) and the line shows it to three decimals; for the SWM package of
\* __main__ it is 0.9936 km, printed 0.994.
C5_SwimmingDistanceIsStrokes ==
    (JustPrinted /\ Printed.workout_type = "SWM") =>
        LET d == Printed.data
        IN  /\ Near(info.distance, Rat(d[1] * 138, 100 * 1000))
            /\ LastLine.distance = Format3f(info.distance)
            /\ Printed = SwmSample =>
                  /\ Near(info.distance, Rat(9936, 10000))
                  /\ LastLine.distance = "0.994"

C5_Witness ==
    /\ JustPrinted
    /\ Printed = SwmSample
    /\ LastLine.training_type = "Swimming"
    /\ LastLine.distance = "0.994"

\* Two records that differ at most in the action count.
SameButAction(r1, r2) ==
    /\ r1.workout_type = r2.workout_type
    /\ Len(r1.data) = Len(r2.data)
    /\ \A k \in 2..Len(r1.data) : r1.data[k] = r2.data[k]

\* C6: for a Swimming record with duration > 0 the mean speed is
\* (length_pool * count_pool / 1000) / duration and the calories are
\* (speed + 1.1) * 2 * weight; two records that differ only in the action
\* count get the same speed and calories; the SWM package of __main__ gets
\* speed 1.000 and calories 336.000.
C6_SwimmingSpeedAndCalories ==
    /\ (JustPrinted /\ Printed.workout_type = "SWM" /\ Printed.data[2] > 0) =>
          LET d == Printed.data
              speed == Rat(d[4] * d[5], 1000 * d[2])
              calories == Rat((speed.n * 10 + 11 * speed.d) * 2 * d[3],
                              speed.d * 10)
          IN  /\ Near(info.speed, speed)
              /\ Near(info.calories, calories)
              /\ LastLine.speed = Format3f(info.speed)
              /\ LastLine.calories = Format3f(info.calories)
              /\ Printed = SwmSample =>
                    /\ info.speed = FloatOfInt(1)
                    /\ Near(info.calories, Rat(336, 1))
                    /\ LastLine.speed = "1.000"
                    /\ LastLine.calories = "336.000"
    /\ pc # "crashed" =>
          \A i, j \in 1..Len(stdout) :
              (/\ packages[i].workout_type = "SWM"
               /\ stdout[i].kind = "info"
               /\ stdout[j].kind = "info"
               /\ SameButAction(packages[i], packages[j])) =>
                  /\ stdout[i].speed = stdout[j].speed
                  /\ stdout[i].calories = stdout[j].calories

C6_Witness ==
    /\ JustPrinted
    /\ Len(stdout) = 2
    /\ packages[1] = SwmSample
    /\ packages[2] = [workout_type |-> "SWM", data |-> <<1000, 1, 80, 25, 40>>]
    /\ stdout[1].calories = "336.000"
    /\ stdout[2].calories = "336.000"

\* The formulas of C7 for a Running record with parameters d.
RunDistance(d) == Rat(d[1] * 65, 100 * 1000)
RunSpeed(d) == Rat(RunDistance(d).n, RunDistance(d).d * d[2])
RunCalories(d) ==
    LET v == RunSpeed(d)
    IN  Rat((18 * v.n - 20 * v.d) * d[3] * d[2] * 60, v.d * 1000)

\* C7 as stated: for a Running record with duration > 0, distance is
\* action * 0.65 / 1000, speed is distance / duration and calories are
\* ((18 * speed - 20) * weight / 1000) * (duration * 60); for the RUN package
\* of __main__ distance and speed are 9.750 and calories are 742.500.
C7_RunningWith742 ==
    (JustPrinted /\ Printed.workout_type = "RUN" /\ Printed.data[2] > 0) =>
        LET d == Printed.data
        IN  /\ Near(info.distance, RunDistance(d))
            /\ Near(info.speed, RunSpeed(d))
            /\ Near(info.calories, RunCalories(d))
            /\ Printed = RunSample =>
                  /\ LastLine.distance = "9.750"
                  /\ LastLine.speed = "9.750"
                  /\ LastLine.calories = "742.500"

\* C7 amended: the same formulas, and the line shows the three values to
\* three decimals; for the RUN package of __main__ distance and speed are
\* 9.750 and calories are 699.750.
C7_RunningWith699 ==
    (JustPrinted /\ Printed.workout_type = "RUN" /\ Printed.data[2] > 0) =>
        LET d == Printed.data
        IN  /\ Near(info.distance, RunDistance(d))
            /\ Near(info.speed, RunSpeed(d))
            /\ Near(info.calories, RunCalories(d))
            /\ LastLine.distance = Format3f(info.distance)
            /\ LastLine.speed = Format3f(info.speed)
            /\ LastLine.calories = Format3f(info.calories)
            /\ Printed = RunSample =>
                  /\ Near(info.distance, Rat(975, 100))
                  /\ Near(info.speed, Rat(975, 100))
                  /\ Near(info.calories, Rat(69975, 100))
                  /\ LastLine.distance = "9.750"
                  /\ LastLine.speed = "9.750"
                  /\ LastLine.calories = "699.750"

C7_Witness ==
    /\ JustPrinted
    /\ Printed = RunSample
    /\ LastLine.training_type = "Running"
    /\ LastLine.calories = "699.750"

\* The formulas of C8 for a SportsWalking record with parameters d.
WlkSpeed(d) == Rat(d[1] * 65, 100 * 1000 * d[2])
\* floor(speed^2 / height)
WlkFloor(d) ==
    LET v == WlkSpeed(d)
    IN  (v.n * v.n) \div (v.d * v.d * d[4])
WlkCalories(d) ==
    \* (0.035 * w + f * 0.029 * w) * (duration * 60)
    Rat((35 + WlkFloor(d) * 29) * d[3] * d[2] * 60, 1000)

\* C8: for a SportsWalking record with duration > 0 and height > 0 the
\* calories are (0.035 * weight + floor(speed^2 / height) * 0.029 * weight)
\* * (duration * 60), the floor taken of speed^2 / height alone; when
\* speed^2 < height the second term is 0; the WLK package of __main__ gets
\* distance 5.850, speed 5.850 and calories 157.500.
C8_WalkingFloorDivision ==
    (/\ JustPrinted
     /\ Printed.workout_type = "WLK"
     /\ Printed.data[2] > 0
     /\ Printed.data[4] > 0) =>
        LET d == Printed.data
            v == WlkSpeed(d)
        IN  /\ Near(info.speed, v)
            /\ Near(info.calories, WlkCalories(d))
            /\ LastLine.calories = Format3f(info.calories)
            /\ (v.n * v.n < d[4] * v.d * v.d) =>
                  Near(info.calories, Rat(35 * d[3] * d[2] * 60, 1000))
            /\ Printed = WlkSample =>
                  /\ LastLine.distance = "5.850"
                  /\ LastLine.speed = "5.850"
                  /\ Near(info.calories, Rat(1575, 10))
                  /\ LastLine.calories = "157.500"

\* a walk whose squared speed exceeds the height (floor = 1) has been printed
C8_Witness ==
    /\ JustPrinted
    /\ Printed = [workout_type |-> "WLK", data |-> <<20000, 1, 75, 100>>]
    /\ WlkFloor(Printed.data) = 1
    /\ LastLine.calories = "288.000"

Concrete == {"Running", "SportsWalking", "Swimming"}

\* C9: every instance read_package returns is a Running, a SportsWalking or a
\* Swimming, never a base Training, so neither show_training_info nor
\* get_spent_calories raises NotImplementedError on it; get_spent_calories
\* on a directly constructed base Training raises NotImplementedError and
\* returns no value.
C9_NotImplementedOnlyOnBase ==
    /\ pc = "dispatched" =>
          /\ training.cls \in Concrete
          /\ result.exc.type # "NotImplementedError"
    /\ (/\ pc = "constructed"
        /\ training.cls = "Training"
        /\ result.fn = "get_spent_calories") =>
          /\ result.exc.type = "NotImplementedError"
          /\ result.val = None

C9_Witness ==
    /\ pc = "constructed"
    /\ training.cls = "Training"
    /\ training.duration > 0
    /\ result.fn = "get_spent_calories"
    /\ result.exc.type = "NotImplementedError"

\* A record that read_package accepts and whose duration is 0.
ZeroDuration(rec) == WellFormed(rec) /\ rec.data[2] = 0

\* C10: a record with the right parameter count and duration 0 is
\* constructed by read_package without an exception; main then ends in a
\* ZeroDivisionError, for all three classes; that exception comes from main,
\* outside the try block, is not one of the two the driver catches and ends
\* the loop; no line is ever printed for such a record.
C10_ZeroDurationFaults ==
    /\ (idx <= Len(packages) /\ ZeroDuration(packages[idx])) =>
          /\ pc \in {"for", "else", "crashed"}
          /\ pc = "else" =>
                /\ result.fn = "read_package"
                /\ result.exc = NoExc
                /\ training.duration = 0
          /\ pc = "crashed" =>
                /\ result.fn = "main"
                /\ result.exc.type = "ZeroDivisionError"
                /\ result.exc.type \notin Caught
          /\ Len(stdout) = idx - 1
    /\ \A i \in 1..Len(stdout) : ~ZeroDuration(packages[i])

\* the loop has printed the summary of the first record and has been ended
\* by the zero duration of the second
C10_Witness ==
    /\ pc = "crashed"
    /\ idx = 2
    /\ Len(stdout) = 1
    /\ packages[2] = [workout_type |-> "SWM", data |-> <<720, 0, 80, 25, 40>>]
    /\ result.fn = "main"
    /\ result.exc.type = "ZeroDivisionError"

====
